---------------------------- MODULE Spec2Model ----------------------------
(***************************************************************************)
(* OSM to DXF converter: the tag-to-layer classifier (LayerMapper), the    *)
(* layer registry and feature builder (DXFGenerator), the OSM handler that *)
(* fills the node store, and the conversion run that drives them.          *)
(*                                                                         *)
(* Python dicts keep insertion order, so a dict is a sequence of           *)
(* <<key, value>> pairs with pairwise distinct keys; iteration is by       *)
(* index.  None is the empty tuple <<>>, a set coordinate v is <<v>>.      *)
(***************************************************************************)
EXTENDS Integers, Sequences, FiniteSets, TLC

VARIABLES
    layer_config,    \* LayerMapper.layer_config: key -> value -> style dict
    use_colors,      \* LayerMapper.use_colors
    tags,            \* the tag mapping of the last get_layer_info call
    layer_info,      \* what that call returned
    nodes,           \* OSMHandler.nodes: id -> OSMNode, in insertion order
    ways,            \* OSMHandler.ways
    created_layers,  \* DXFGenerator.created_layers
    doc_layers,      \* doc.layers: one record per doc.layers.new call
    msp,             \* the modelspace: circles and polylines, in order
    pc,              \* position of the caller
    idx,             \* position of the running loop over nodes or ways
    calls,           \* number of DXFGenerator calls made so far
    job,             \* ConversionJob fields the run writes
    transform_log,   \* node ids handed to coord_transformer.transform, in order
    exc,             \* the exception the run's except clause caught
    saved,           \* doc.saveas has written the output file
    caller,          \* who runs the conversion: the web task or the CLI main
    cli,             \* what the CLI process logged and its exit code
    req              \* the HTTP request being served for the job

vars == <<layer_config, use_colors, tags, layer_info, nodes, ways,
          created_layers, doc_layers, msp, pc, idx, calls, job,
          transform_log, exc, saved, caller, cli, req>>

---------------------------------------------------------------------------
(* Bounds of the model.                                                    *)

MaxTags == 3

---------------------------------------------------------------------------
(* ezdxf.colors: AutoCAD colour indices.                                   *)

RED == 1
YELLOW == 2
GREEN == 3
CYAN == 4
BLUE == 5
MAGENTA == 6
WHITE == 7
GRAY == 8

Style(l, c, w) == [layer |-> l, color |-> c, lineweight |-> w]

(* LayerMapper.__init__: the layer table.                                  *)
LayerConfigInit ==
    [k \in {"highway", "building", "waterway", "natural", "amenity", "landuse"} |->
       CASE k = "highway" ->
              [v \in {"motorway", "trunk", "primary", "secondary", "tertiary",
                      "residential", "service", "footway", "cycleway", "path"} |->
                 CASE v = "motorway"    -> Style("HIGHWAY_MOTORWAY", RED, 100)
                   [] v = "trunk"       -> Style("HIGHWAY_TRUNK", RED, 80)
                   [] v = "primary"     -> Style("HIGHWAY_PRIMARY", YELLOW, 60)
                   [] v = "secondary"   -> Style("HIGHWAY_SECONDARY", CYAN, 40)
                   [] v = "tertiary"    -> Style("HIGHWAY_TERTIARY", GREEN, 30)
                   [] v = "residential" -> Style("HIGHWAY_RESIDENTIAL", WHITE, 20)
                   [] v = "service"     -> Style("HIGHWAY_SERVICE", GRAY, 10)
                   [] v = "footway"     -> Style("HIGHWAY_FOOTWAY", MAGENTA, 5)
                   [] v = "cycleway"    -> Style("HIGHWAY_CYCLEWAY", BLUE, 5)
                   [] v = "path"        -> Style("HIGHWAY_PATH", GREEN, 5)]
         [] k = "building" ->
              [v \in {"default"} |-> Style("BUILDING", GRAY, 25)]
         [] k = "waterway" ->
              [v \in {"river", "stream", "canal", "drain"} |->
                 CASE v = "river"  -> Style("WATERWAY_RIVER", BLUE, 50)
                   [] v = "stream" -> Style("WATERWAY_STREAM", BLUE, 20)
                   [] v = "canal"  -> Style("WATERWAY_CANAL", BLUE, 30)
                   [] v = "drain"  -> Style("WATERWAY_DRAIN", CYAN, 10)]
         [] k = "natural" ->
              [v \in {"water", "coastline", "tree", "forest"} |->
                 CASE v = "water"     -> Style("NATURAL_WATER", BLUE, 25)
                   [] v = "coastline" -> Style("NATURAL_COASTLINE", BLUE, 50)
                   [] v = "tree"      -> Style("NATURAL_TREE", GREEN, 5)
                   [] v = "forest"    -> Style("NATURAL_FOREST", GREEN, 25)]
         [] k = "amenity" ->
              [v \in {"default"} |-> Style("AMENITY", MAGENTA, 15)]
         [] k = "landuse" ->
              [v \in {"default"} |-> Style("LANDUSE", YELLOW, 15)]]

(* The value returned before any call was made (no Python counterpart).    *)
NoInfo == Style("", 0, 0)

---------------------------------------------------------------------------
(* Inputs: tag mappings.                                                   *)

TagKeys == {"highway", "building", "waterway", "natural", "amenity",
            "landuse", "area", "shop", "name"}

TagValues(k) ==
    CASE k = "highway"  -> {"residential", "primary", "bus_stop"}
      [] k = "building" -> {"yes", "default"}
      [] k = "waterway" -> {"river", "ditch"}
      [] k = "natural"  -> {"water", "default"}
      [] k = "amenity"  -> {"cafe"}
      [] k = "landuse"  -> {"residential"}
      [] k = "area"     -> {"yes", "no"}
      [] k = "shop"     -> {"bakery"}
      [] k = "name"     -> {"Main St"}

TagPairs == UNION {{<<k, v>> : v \in TagValues(k)} : k \in TagKeys}

DistinctKeys(t) == \A i, j \in 1..Len(t) : i # j => t[i][1] # t[j][1]

TagMappings ==
    {t \in UNION {[1..n -> TagPairs] : n \in 0..MaxTags} : DistinctKeys(t)}

KeysOf(t) == {t[i][1] : i \in 1..Len(t)}

(* dict.get(key): the value stored under key, None (<<>>) when absent.     *)
DictGet(t, key) ==
    IF key \in KeysOf(t)
    THEN <<t[CHOOSE i \in 1..Len(t) : t[i][1] = key][2]>>
    ELSE <<>>

---------------------------------------------------------------------------
(* LayerMapper.get_layer_info.                                             *)
(* A style object is carried with the table slot it aliases: src = <<>>    *)
(* for an object of its own (a copy), <<key, value>> for the table's dict. *)

(* category[value].copy()                                                  *)
DictCopyAliased(cfg, key, value) == [src |-> <<key, value>>, val |-> cfg[key][value]]

DictCopy(cfg, key, value) == [src |-> <<>>, val |-> cfg[key][value]]

(* layer_info['color'] = color: writes through to the table when aliased.  *)
SetColor(cfg, obj, color) ==
    [obj |-> [obj EXCEPT !.val.color = color],
     config |-> IF obj.src = <<>> THEN cfg
                ELSE [cfg EXCEPT ![obj.src[1]][obj.src[2]].color = color]]

(* Lines 101-104 and 106-109: copy the entry, whiten it in monochrome mode.*)
ReturnEntry(cfg, key, value, uc) ==
    LET obj == DictCopy(cfg, key, value)
        set == IF ~uc THEN SetColor(cfg, obj, WHITE)
                      ELSE [obj |-> obj, config |-> cfg]
    IN  [info |-> set.obj.val, config |-> set.config]

(* Lines 98-105: what one tag does to the scan.                            *)
TagDecisionNoValue(cfg, key, value) ==
    IF key \in DOMAIN cfg
    THEN IF "default" \in DOMAIN cfg[key] THEN "default" ELSE "continue"
    ELSE "continue"

TagDecisionNoDefault(cfg, key, value) ==
    IF key \in DOMAIN cfg
    THEN IF value \in DOMAIN cfg[key] THEN "value" ELSE "continue"
    ELSE "continue"

TagDecision(cfg, key, value) ==
    IF key \in DOMAIN cfg
    THEN IF value \in DOMAIN cfg[key] THEN "value"
         ELSE IF "default" \in DOMAIN cfg[key] THEN "default"
         ELSE "continue"
    ELSE "continue"

(* Lines 111-113.                                                          *)
FallbackInfo(uc) ==
    LET default_color == IF uc THEN WHITE ELSE WHITE
    IN  Style("OSM_OTHER", default_color, 10)

(* Lines 97-113: the loop over tags.items(), from index i on.              *)
RECURSIVE ScanTagsStop(_, _, _, _)
ScanTagsStop(cfg, t, uc, i) ==
    IF i > Len(t)
    THEN [info |-> FallbackInfo(uc), config |-> cfg]
    ELSE LET d == TagDecision(cfg, t[i][1], t[i][2])
         IN  CASE d = "value"    -> ReturnEntry(cfg, t[i][1], t[i][2], uc)
               [] d = "default"  -> ReturnEntry(cfg, t[i][1], "default", uc)
               [] d = "continue" ->
                    IF t[i][1] \in DOMAIN cfg
                    THEN [info |-> FallbackInfo(uc), config |-> cfg]
                    ELSE ScanTagsStop(cfg, t, uc, i + 1)

RECURSIVE ScanTags(_, _, _, _)
ScanTags(cfg, t, uc, i) ==
    IF i > Len(t)
    THEN [info |-> FallbackInfo(uc), config |-> cfg]
    ELSE LET d == TagDecision(cfg, t[i][1], t[i][2])
         IN  CASE d = "value"    -> ReturnEntry(cfg, t[i][1], t[i][2], uc)
               [] d = "default"  -> ReturnEntry(cfg, t[i][1], "default", uc)
               [] d = "continue" -> ScanTags(cfg, t, uc, i + 1)

GetLayerInfo(cfg, t, uc) == ScanTags(cfg, t, uc, 1)

---------------------------------------------------------------------------
(* The classifier on its own: one LayerMapper, called on a tag mapping.     *)

NoJob == [status |-> "pending", progress |-> 0, output_file |-> <<>>,
          error_message |-> <<>>]

(* The CLI process before it has logged an error or exited.                *)
NoCli == [exit_code |-> <<>>, error_logged |-> FALSE]

(* No request has been made for the job.                                   *)
NoReq == [route |-> "none", at |-> "idle", n |-> 0, status |-> <<>>,
          progress |-> <<>>, error |-> <<>>, download_url |-> <<>>,
          code |-> <<>>, seen_completed |-> FALSE]

ClassifyInit ==
    /\ layer_config = LayerConfigInit
    /\ use_colors \in BOOLEAN
    /\ tags \in TagMappings
    /\ layer_info = NoInfo
    /\ nodes = <<>>
    /\ ways = <<>>
    /\ created_layers = {}
    /\ doc_layers = <<>>
    /\ msp = <<>>
    /\ pc = "classify"
    /\ idx = 0
    /\ calls = 0
    /\ job = NoJob
    /\ transform_log = <<>>
    /\ exc = <<>>
    /\ saved = FALSE
    /\ caller = "library"
    /\ cli = NoCli
    /\ req = NoReq

GetLayerInfoCall ==
    /\ pc = "classify"
    /\ LET r == GetLayerInfo(layer_config, tags, use_colors)
       IN  /\ layer_info' = r.info
           /\ layer_config' = r.config
    /\ pc' = "classified"
    /\ UNCHANGED <<use_colors, tags, nodes, ways, created_layers, doc_layers, msp,
                   idx, calls, job, transform_log, exc, saved, caller, cli, req>>

ClassifyNext == GetLayerInfoCall

ClassifySpec == ClassifyInit /\ [][ClassifyNext]_vars

---------------------------------------------------------------------------
(* The parsed data: OSMNode, OSMWay and what OSMHandler collects.          *)

None == <<>>

Num(v) == <<v>>

(* OSMNode.__init__: x and y start as None.                                *)
Node(id, lon, lat, t) ==
    [id |-> id, lat |-> lat, lon |-> lon, tags |-> t, x |-> None, y |-> None]

(* OSMWay.__init__                                                         *)
Way(id, refs, t) == [id |-> id, nodes |-> refs, tags |-> t]

(* The nodes an input file may hold: three places, and what is mapped      *)
(* there.                                                                  *)
OsmNodes ==
    { Node(1, 0, 0, <<<<"amenity", "cafe">>>>),
      Node(2, 1, 0, <<>>),
      Node(3, 1, 1, <<<<"name", "Main St">>>>),
      Node(3, 1, 1, <<<<"name", "Main St">>, <<"highway", "residential">>>>),
      Node(3, 1, 1, <<<<"shop", "bakery">>>>) }

(* The ways an input file may hold; node 4 is in no file.                  *)
OsmWays ==
    { Way(10, <<1, 2, 3>>, <<>>),
      Way(11, <<1, 2, 3>>, <<<<"highway", "residential">>>>),
      Way(12, <<1, 2, 3>>, <<<<"building", "yes">>>>),
      Way(13, <<1, 2, 3, 1>>, <<<<"building", "yes">>>>),
      Way(14, <<1, 4, 2>>, <<<<"highway", "residential">>>>),
      Way(15, <<4, 1, 4>>, <<<<"highway", "residential">>>>),
      Way(16, <<1, 2>>, <<<<"name", "Main St">>, <<"area", "yes">>>>),
      Way(17, <<2, 3>>, <<<<"area", "no">>, <<"waterway", "river">>>>),
      Way(18, <<3, 1, 3>>, <<<<"landuse", "residential">>>>),
      Way(19, <<2, 2>>, <<<<"highway", "residential">>>>) }

MaxNodes == 3

MaxWays == 1

(* OSMHandler.node: self.nodes[n.id] = node, so ids are distinct and the    *)
(* order is the order of the file.                                         *)
NodeStores ==
    {ns \in UNION {[1..n -> OsmNodes] : n \in 0..MaxNodes} :
       \A i, j \in 1..Len(ns) : i # j => ns[i].id # ns[j].id}

(* OSMHandler.way: self.ways.append(way)                                   *)
WayLists == UNION {[1..n -> OsmWays] : n \in 0..MaxWays}

(* node_id in nodes, nodes[node_id]                                        *)
HasNode(ns, id) == \E i \in 1..Len(ns) : ns[i].id = id

NodeById(ns, id) == ns[CHOOSE i \in 1..Len(ns) : ns[i].id = id]

---------------------------------------------------------------------------
(* DXFGenerator.  g is the generator with what it works on:                *)
(* [config, created, layers, msp, nodes, transforms].                      *)

(* CoordinateTransformer.transform: the projection of pyproj, here a       *)
(* scaling of both axes.                                                   *)
Transform(lon, lat) == <<lon * 10, lat * 10>>

Circle(center, layer) ==
    [kind |-> "CIRCLE", points |-> <<center>>, radius |-> 5, closed |-> FALSE,
     layer |-> layer]

Polyline(points, closed, layer) ==
    [kind |-> "LWPOLYLINE", points |-> points, radius |-> 0, closed |-> closed,
     layer |-> layer]

(* DXFGenerator.create_layer                                               *)
CreateLayerAlways(g, name, color, lineweight) ==
    [g EXCEPT !.layers = Append(@, Style(name, color, lineweight)),
              !.created = @ \cup {name}]

CreateLayer(g, name, color, lineweight) ==
    IF name \notin g.created
    THEN [g EXCEPT !.layers = Append(@, Style(name, color, lineweight)),
                   !.created = @ \cup {name}]
    ELSE g

(* Line 187: node.tags and any(key in [...] for key in node.tags.keys())   *)
PointWorthyAnyTag(t) == t # <<>>

PointWorthy(t) ==
    /\ t # <<>>
    /\ \E i \in 1..Len(t) : t[i][1] \in {"amenity", "shop", "tourism", "highway"}

(* Lines 183-196: one round of the loop of process_nodes, on the k-th node.*)
NodeIter(g, uc, k) ==
    LET n  == g.nodes[k]
        xy == Transform(n.lon, n.lat)
        g1 == [g EXCEPT !.nodes[k].x = Num(xy[1]), !.nodes[k].y = Num(xy[2]),
                        !.transforms = Append(@, n.id)]
    IN  IF PointWorthy(n.tags)
        THEN LET r  == GetLayerInfo(g1.config, n.tags, uc)
                 g2 == CreateLayer([g1 EXCEPT !.config = r.config],
                                   r.info.layer, r.info.color, r.info.lineweight)
                 m  == g2.nodes[k]
             IN  [g2 EXCEPT !.msp = Append(@, Circle(<<m.x, m.y>>, r.info.layer))]
        ELSE g1

(* DXFGenerator.process_nodes: the whole loop.                             *)
RECURSIVE ProcessNodesFrom(_, _, _)
ProcessNodesFrom(g, uc, k) ==
    IF k > Len(g.nodes) THEN g
    ELSE ProcessNodesFrom(NodeIter(g, uc, k), uc, k + 1)

ProcessNodes(g, uc) == ProcessNodesFrom(g, uc, 1)

(* Lines 207-211: the coordinates of the node ids that are in the store.   *)
RECURSIVE ResolveFrom(_, _, _, _)
ResolveFrom(ns, refs, k, coordinates) ==
    IF k > Len(refs) THEN coordinates
    ELSE IF HasNode(ns, refs[k])
         THEN LET node == NodeById(ns, refs[k])
              IN  ResolveFrom(ns, refs, k + 1, Append(coordinates, <<node.x, node.y>>))
         ELSE ResolveFrom(ns, refs, k + 1, coordinates)

Resolve(ns, refs) == ResolveFrom(ns, refs, 1, <<>>)

(* Line 221: the way is an area.                                           *)
IsAreaAnyValue(t) ==
    \/ "area" \in KeysOf(t)
    \/ "building" \in KeysOf(t)
    \/ "landuse" \in KeysOf(t)

IsArea(t) ==
    \/ DictGet(t, "area") = <<"yes">>
    \/ "building" \in KeysOf(t)
    \/ "landuse" \in KeysOf(t)

(* Lines 223-224: close the polygon.                                       *)
CloseRingAlways(coordinates) == Append(coordinates, coordinates[1])

CloseRing(coordinates) ==
    IF coordinates[1] # coordinates[Len(coordinates)]
    THEN Append(coordinates, coordinates[1])
    ELSE coordinates

(* Lines 203-204: the way carries no tags.                                 *)
SkipWayNever(w) == FALSE

SkipWay(w) == w.tags = <<>>

(* A process_ways round that projects each resolved node once more.        *)
WayIterReprojecting(g, uc, w) ==
    IF SkipWay(w) THEN g
    ELSE LET coordinates == Resolve(g.nodes, w.nodes)
             again == SelectSeq(w.nodes, LAMBDA id : HasNode(g.nodes, id))
             g0 == [g EXCEPT !.transforms = @ \o again]
         IN  IF Len(coordinates) < 2 THEN g0
             ELSE LET r  == GetLayerInfo(g0.config, w.tags, uc)
                      g1 == CreateLayer([g0 EXCEPT !.config = r.config],
                                        r.info.layer, r.info.color, r.info.lineweight)
                  IN  IF IsArea(w.tags)
                      THEN [g1 EXCEPT !.msp =
                              Append(@, Polyline(CloseRing(coordinates), TRUE, r.info.layer))]
                      ELSE [g1 EXCEPT !.msp =
                              Append(@, Polyline(coordinates, FALSE, r.info.layer))]

(* Lines 203-236: one round of the loop of process_ways, on way w.         *)
WayIter(g, uc, w) ==
    IF SkipWay(w) THEN g
    ELSE LET coordinates == Resolve(g.nodes, w.nodes)
         IN  IF Len(coordinates) < 2 THEN g
             ELSE LET r  == GetLayerInfo(g.config, w.tags, uc)
                      g1 == CreateLayer([g EXCEPT !.config = r.config],
                                        r.info.layer, r.info.color, r.info.lineweight)
                  IN  IF IsArea(w.tags)
                      THEN [g1 EXCEPT !.msp =
                              Append(@, Polyline(CloseRing(coordinates), TRUE, r.info.layer))]
                      ELSE [g1 EXCEPT !.msp =
                              Append(@, Polyline(coordinates, FALSE, r.info.layer))]

(* DXFGenerator.process_ways: the whole loop.                              *)
RECURSIVE ProcessWaysFrom(_, _, _, _)
ProcessWaysFrom(g, uc, ws, k) ==
    IF k > Len(ws) THEN g
    ELSE ProcessWaysFrom(WayIter(g, uc, ws[k]), uc, ws, k + 1)

ProcessWays(g, uc, ws) == ProcessWaysFrom(g, uc, ws, 1)

---------------------------------------------------------------------------
(* The generator under any sequence of calls.  The file has been parsed    *)
(* into the handler; then create_layer, process_nodes and process_ways are *)
(* called in any order on one DXFGenerator, pyproj and ezdxf returning     *)
(* normally.                                                               *)

MaxCalls == 2

(* Layers a caller registers on its own.                                   *)
DirectLayers == {<<"AMENITY", RED, 35>>, <<"SITE", WHITE, 10>>}

Gen == [config |-> layer_config, created |-> created_layers,
        layers |-> doc_layers, msp |-> msp, nodes |-> nodes,
        transforms |-> transform_log]

SetGen(g) ==
    /\ layer_config' = g.config
    /\ created_layers' = g.created
    /\ doc_layers' = g.layers
    /\ msp' = g.msp
    /\ nodes' = g.nodes
    /\ transform_log' = g.transforms

(* OSMHandler.__init__ and DXFGenerator.__init__                           *)
GenInit ==
    /\ layer_config = LayerConfigInit
    /\ use_colors \in BOOLEAN
    /\ tags = <<>>
    /\ layer_info = NoInfo
    /\ nodes = <<>>
    /\ ways = <<>>
    /\ created_layers = {}
    /\ doc_layers = <<>>
    /\ msp = <<>>
    /\ pc = "parse"
    /\ idx = 0
    /\ calls = 0
    /\ job = NoJob
    /\ transform_log = <<>>
    /\ exc = <<>>
    /\ saved = FALSE
    /\ caller = "library"
    /\ cli = NoCli
    /\ req = NoReq

(* handler.apply_file: the node and way callbacks fill the handler.        *)
ApplyFile ==
    /\ pc = "parse"
    /\ nodes' \in NodeStores
    /\ ways' \in WayLists
    /\ pc' = "generate"
    /\ UNCHANGED <<layer_config, use_colors, tags, layer_info, created_layers,
                   doc_layers, msp, idx, calls, job, transform_log, exc, saved,
                   caller, cli, req>>

(* The caller is between two calls on the generator; pc names the call    *)
(* that returned last.                                                     *)
BetweenCalls ==
    /\ pc \in {"generate", "create_layer", "process_nodes", "process_ways"}
    /\ calls < MaxCalls

CreateLayerWith(a) ==
    /\ BetweenCalls
    /\ SetGen(CreateLayer(Gen, a[1], a[2], a[3]))
    /\ pc' = "create_layer"
    /\ calls' = calls + 1
    /\ UNCHANGED <<use_colors, tags, layer_info, ways, idx, job, exc, saved,
                   caller, cli, req>>

CreateLayerCall == \E a \in DirectLayers : CreateLayerWith(a)

ProcessNodesCall ==
    /\ BetweenCalls
    /\ SetGen(ProcessNodes(Gen, use_colors))
    /\ pc' = "process_nodes"
    /\ calls' = calls + 1
    /\ UNCHANGED <<use_colors, tags, layer_info, ways, idx, job, exc, saved,
                   caller, cli, req>>

ProcessWaysCall ==
    /\ BetweenCalls
    /\ SetGen(ProcessWays(Gen, use_colors, ways))
    /\ pc' = "process_ways"
    /\ calls' = calls + 1
    /\ UNCHANGED <<use_colors, tags, layer_info, ways, idx, job, exc, saved,
                   caller, cli, req>>

Next ==
    \/ ApplyFile
    \/ CreateLayerCall
    \/ ProcessNodesCall
    \/ ProcessWaysCall

Spec == GenInit /\ [][Next]_vars

---------------------------------------------------------------------------
(* A conversion run: convert_osm_to_dxf, the background task of one web    *)
(* job, or main, the same steps run from the command line.  The loops of   *)
(* process_nodes and process_ways advance one round per step; apply_file,  *)
(* transform, saveas and stat may raise, which lands in the except clause. *)

(* Lines 108-119: process_nodes, then process_ways, then save.             *)
RunOrderWaysFirst == <<"ways", "nodes", "save">>

RunOrder == <<"nodes", "ways", "save">>

PhaseAfter(p) ==
    RunOrder[(CHOOSE i \in 1..Len(RunOrder) : RunOrder[i] = p) + 1]

(* job.progress on entering a phase: lines 104, 113, 118.                  *)
ProgressAt(p) ==
    CASE p = "nodes" -> 70
      [] p = "ways"  -> 85
      [] p = "save"  -> 95

(* The text of the exception each failing call raises.                     *)
ParseError == "not well-formed"

ProjectionError == "invalid projection"

WriteError == "cannot write"

StatError == "no such file"

(* ConversionJob.__init__, OSMHandler.__init__                             *)
RunInit ==
    /\ layer_config = LayerConfigInit
    /\ use_colors \in BOOLEAN
    /\ tags = <<>>
    /\ layer_info = NoInfo
    /\ nodes = <<>>
    /\ ways = <<>>
    /\ created_layers = {}
    /\ doc_layers = <<>>
    /\ msp = <<>>
    /\ pc = "pending"
    /\ idx = 0
    /\ calls = 0
    /\ job = NoJob
    /\ transform_log = <<>>
    /\ exc = <<>>
    /\ saved = FALSE
    /\ caller \in {"web", "cli"}
    /\ cli = NoCli
    /\ req = NoReq

(* The web task writes the job's fields; main has no job.                  *)
JobAfter(j) == IF caller = "web" THEN j ELSE job

(* An exception e leaves the try block.                                    *)
Raise(e) ==
    /\ pc' = "except"
    /\ exc' = <<e>>
    /\ UNCHANGED <<layer_config, use_colors, tags, layer_info, nodes, ways,
                   created_layers, doc_layers, msp, idx, calls, job, saved,
                   caller, cli, req>>

(* app.py lines 78-88; main lines 285-292.                                 *)
RunStart ==
    /\ pc = "pending"
    /\ job' = JobAfter([job EXCEPT !.status = "processing", !.progress = 20])
    /\ pc' = "parsing"
    /\ UNCHANGED <<layer_config, use_colors, tags, layer_info, nodes, ways,
                   created_layers, doc_layers, msp, idx, calls,
                   transform_log, exc, saved, caller, cli, req>>

(* Lines 91-106: the file is parsed and the generator constructed.         *)
RunApplyFile ==
    /\ pc = "parsing"
    /\ nodes' \in NodeStores
    /\ ways' \in WayLists
    /\ job' = JobAfter([job EXCEPT !.progress = ProgressAt("nodes")])
    /\ pc' = RunOrder[1]
    /\ idx' = 1
    /\ UNCHANGED <<layer_config, use_colors, tags, layer_info,
                   created_layers, doc_layers, msp, calls, transform_log,
                   exc, saved, caller, cli, req>>

RunApplyFileRaises ==
    /\ pc = "parsing"
    /\ Raise(ParseError)
    /\ UNCHANGED transform_log

(* Line 110: one round of process_nodes.                                   *)
RunNodeStep ==
    /\ pc = "nodes"
    /\ idx <= Len(nodes)
    /\ SetGen(NodeIter(Gen, use_colors, idx))
    /\ idx' = idx + 1
    /\ UNCHANGED <<use_colors, tags, layer_info, ways, pc, calls, job, exc,
                   saved, caller, cli, req>>

(* Line 184 raises inside transform: the node stays unprojected.           *)
RunTransformRaises ==
    /\ pc = "nodes"
    /\ idx <= Len(nodes)
    /\ transform_log' = Append(transform_log, nodes[idx].id)
    /\ Raise(ProjectionError)

(* Line 114: one round of process_ways.                                    *)
RunWayStep ==
    /\ pc = "ways"
    /\ idx <= Len(ways)
    /\ SetGen(WayIter(Gen, use_colors, ways[idx]))
    /\ idx' = idx + 1
    /\ UNCHANGED <<use_colors, tags, layer_info, ways, pc, calls, job, exc,
                   saved, caller, cli, req>>

(* A loop is through: lines 112-113 and 117-118.                           *)
RunNextPhase ==
    /\ \/ pc = "nodes" /\ idx > Len(nodes)
       \/ pc = "ways" /\ idx > Len(ways)
    /\ pc' = PhaseAfter(pc)
    /\ idx' = 1
    /\ job' = JobAfter([job EXCEPT !.progress = ProgressAt(PhaseAfter(pc))])
    /\ UNCHANGED <<layer_config, use_colors, tags, layer_info, nodes, ways,
                   created_layers, doc_layers, msp, calls, transform_log,
                   exc, saved, caller, cli, req>>

(* Line 119: doc.saveas returns.                                           *)
RunSave ==
    /\ pc = "save"
    /\ saved' = TRUE
    /\ pc' = "saved"
    /\ UNCHANGED <<layer_config, use_colors, tags, layer_info, nodes, ways,
                   created_layers, doc_layers, msp, idx, calls, job,
                   transform_log, exc, caller, cli, req>>

RunSaveRaises ==
    /\ pc = "save"
    /\ Raise(WriteError)
    /\ UNCHANGED transform_log

(* Lines 122-123.                                                          *)
RunSetCompleted ==
    /\ caller = "web"
    /\ pc = "saved"
    /\ job' = [job EXCEPT !.status = "completed"]
    /\ pc' = "completed_status"
    /\ UNCHANGED <<layer_config, use_colors, tags, layer_info, nodes, ways,
                   created_layers, doc_layers, msp, idx, calls,
                   transform_log, exc, saved, caller, cli, req>>

(* Lines 124-125.                                                          *)
RunSetProgress ==
    /\ pc = "completed_status"
    /\ job' = [job EXCEPT !.progress = 100]
    /\ pc' = "completed_progress"
    /\ UNCHANGED <<layer_config, use_colors, tags, layer_info, nodes, ways,
                   created_layers, doc_layers, msp, idx, calls,
                   transform_log, exc, saved, caller, cli, req>>

(* Line 126.                                                               *)
RunSetOutput ==
    /\ pc = "completed_progress"
    /\ job' = [job EXCEPT !.output_file = <<"output.dxf">>]
    /\ pc' = "completed_output"
    /\ UNCHANGED <<layer_config, use_colors, tags, layer_info, nodes, ways,
                   created_layers, doc_layers, msp, idx, calls,
                   transform_log, exc, saved, caller, cli, req>>

(* Lines 127-128.                                                          *)
RunStats ==
    /\ pc = "completed_output"
    /\ pc' = "done"
    /\ UNCHANGED <<layer_config, use_colors, tags, layer_info, nodes, ways,
                   created_layers, doc_layers, msp, idx, calls, job,
                   transform_log, exc, saved, caller, cli, req>>

RunStatsRaises ==
    /\ pc = "completed_output"
    /\ Raise(StatError)
    /\ UNCHANGED transform_log

(* Lines 130-132.                                                          *)
RunExceptStatus ==
    /\ caller = "web"
    /\ pc = "except"
    /\ job' = [job EXCEPT !.status = "error"]
    /\ pc' = "except_status"
    /\ UNCHANGED <<layer_config, use_colors, tags, layer_info, nodes, ways,
                   created_layers, doc_layers, msp, idx, calls,
                   transform_log, exc, saved, caller, cli, req>>

(* Line 133: job.error_message = str(e).                                   *)
RunExceptMessageNone ==
    /\ pc = "except_status"
    /\ job' = [job EXCEPT !.error_message = <<>>]
    /\ pc' = "except_message"
    /\ UNCHANGED <<layer_config, use_colors, tags, layer_info, nodes, ways,
                   created_layers, doc_layers, msp, idx, calls,
                   transform_log, exc, saved, caller, cli, req>>

RunExceptMessage ==
    /\ pc = "except_status"
    /\ job' = [job EXCEPT !.error_message = exc]
    /\ pc' = "except_message"
    /\ UNCHANGED <<layer_config, use_colors, tags, layer_info, nodes, ways,
                   created_layers, doc_layers, msp, idx, calls,
                   transform_log, exc, saved, caller, cli, req>>

(* Line 134.                                                               *)
RunExceptProgress ==
    /\ pc = "except_message"
    /\ job' = [job EXCEPT !.progress = 0]
    /\ pc' = "failed"
    /\ UNCHANGED <<layer_config, use_colors, tags, layer_info, nodes, ways,
                   created_layers, doc_layers, msp, idx, calls,
                   transform_log, exc, saved, caller, cli, req>>

(* main lines 279-283: the input file is missing.                          *)
CliInputMissing ==
    /\ caller = "cli"
    /\ pc = "pending"
    /\ cli' = [exit_code |-> <<1>>, error_logged |-> TRUE]
    /\ pc' = "exited"
    /\ UNCHANGED <<layer_config, use_colors, tags, layer_info, nodes, ways,
                   created_layers, doc_layers, msp, idx, calls, job,
                   transform_log, exc, saved, caller, req>>

(* main lines 314-315: the conversion went through and main returns.       *)
CliDone ==
    /\ caller = "cli"
    /\ pc = "saved"
    /\ pc' = "done"
    /\ UNCHANGED <<layer_config, use_colors, tags, layer_info, nodes, ways,
                   created_layers, doc_layers, msp, idx, calls, job,
                   transform_log, exc, saved, caller, cli, req>>

(* main lines 317-322: logging.error, then sys.exit(1).                    *)
CliExcept ==
    /\ caller = "cli"
    /\ pc = "except"
    /\ cli' = [exit_code |-> <<1>>, error_logged |-> TRUE]
    /\ pc' = "exited"
    /\ UNCHANGED <<layer_config, use_colors, tags, layer_info, nodes, ways,
                   created_layers, doc_layers, msp, idx, calls, job,
                   transform_log, exc, saved, caller, req>>

RunNext ==
    \/ RunStart
    \/ RunApplyFile
    \/ RunApplyFileRaises
    \/ RunNodeStep
    \/ RunTransformRaises
    \/ RunWayStep
    \/ RunNextPhase
    \/ RunSave
    \/ RunSaveRaises
    \/ RunSetCompleted
    \/ RunSetProgress
    \/ RunSetOutput
    \/ RunStats
    \/ RunStatsRaises
    \/ RunExceptStatus
    \/ RunExceptMessage
    \/ RunExceptProgress
    \/ CliInputMissing
    \/ CliDone
    \/ CliExcept

RunSpec == RunInit /\ [][RunNext]_vars

---------------------------------------------------------------------------
(* One web job: the background task of upload_file runs the conversion     *)
(* while /api/status and /api/download requests for the job are served by  *)
(* other threads.  A request reads the job's fields one at a time, and the *)
(* task may write between two reads.                                       *)

MaxRequests == 2

RequestStarts ==
    /\ caller = "web"
    /\ req.at \in {"idle", "responded"}
    /\ req.n < MaxRequests

(* A new request: nothing read yet; what earlier requests saw is kept.     *)
NewReq(route) ==
    [NoReq EXCEPT !.route = route, !.n = req.n + 1,
                  !.seen_completed = req.seen_completed \/ job.status = "completed"]

(* get_status line 192: 'status': job.status                               *)
StatusReadStatus ==
    /\ RequestStarts
    /\ req' = [NewReq("status") EXCEPT !.at = "status", !.status = <<job.status>>]
    /\ UNCHANGED <<layer_config, use_colors, tags, layer_info, nodes, ways,
                   created_layers, doc_layers, msp, pc, idx, calls, job,
                   transform_log, exc, saved, caller, cli>>

(* get_status line 193: 'progress': job.progress                           *)
StatusReadProgress ==
    /\ req.route = "status" /\ req.at = "status"
    /\ req' = [req EXCEPT !.at = "progress", !.progress = <<job.progress>>]
    /\ UNCHANGED <<layer_config, use_colors, tags, layer_info, nodes, ways,
                   created_layers, doc_layers, msp, pc, idx, calls, job,
                   transform_log, exc, saved, caller, cli>>

(* get_status lines 203-204.                                               *)
StatusReadError ==
    /\ req.route = "status" /\ req.at = "progress"
    /\ req' = [req EXCEPT !.at = "error", !.error = job.error_message]
    /\ UNCHANGED <<layer_config, use_colors, tags, layer_info, nodes, ways,
                   created_layers, doc_layers, msp, pc, idx, calls, job,
                   transform_log, exc, saved, caller, cli>>

(* get_status lines 206-209: download_url if job.output_file; respond.     *)
StatusRespond ==
    /\ req.route = "status" /\ req.at = "error"
    /\ req' = [req EXCEPT !.at = "responded", !.code = <<200>>,
                 !.download_url = IF job.output_file # <<>>
                                  THEN <<"/api/download">> ELSE <<>>]
    /\ UNCHANGED <<layer_config, use_colors, tags, layer_info, nodes, ways,
                   created_layers, doc_layers, msp, pc, idx, calls, job,
                   transform_log, exc, saved, caller, cli>>

(* download_file line 219, left operand: job.status != 'completed'.        *)
DownloadReadStatus ==
    /\ RequestStarts
    /\ req' = IF job.status # "completed"
              THEN [NewReq("download") EXCEPT !.at = "responded",
                       !.status = <<job.status>>, !.code = <<400>>]
              ELSE [NewReq("download") EXCEPT !.at = "output",
                       !.status = <<job.status>>]
    /\ UNCHANGED <<layer_config, use_colors, tags, layer_info, nodes, ways,
                   created_layers, doc_layers, msp, pc, idx, calls, job,
                   transform_log, exc, saved, caller, cli>>

(* download_file line 219, right operand, and lines 222-232.               *)
DownloadRespond ==
    /\ req.route = "download" /\ req.at = "output"
    /\ req' = [req EXCEPT !.at = "responded",
                 !.code = IF job.output_file = <<>> THEN <<400>>
                          ELSE IF saved THEN <<200>> ELSE <<404>>]
    /\ UNCHANGED <<layer_config, use_colors, tags, layer_info, nodes, ways,
                   created_layers, doc_layers, msp, pc, idx, calls, job,
                   transform_log, exc, saved, caller, cli>>

WebInit == RunInit /\ caller = "web"

WebNext ==
    \/ RunStart
    \/ RunApplyFile
    \/ RunApplyFileRaises
    \/ RunNodeStep
    \/ RunTransformRaises
    \/ RunWayStep
    \/ RunNextPhase
    \/ RunSave
    \/ RunSaveRaises
    \/ RunSetCompleted
    \/ RunSetProgress
    \/ RunSetOutput
    \/ RunStats
    \/ RunStatsRaises
    \/ RunExceptStatus
    \/ RunExceptMessage
    \/ RunExceptProgress
    \/ StatusReadStatus
    \/ StatusReadProgress
    \/ StatusReadError
    \/ StatusRespond
    \/ DownloadReadStatus
    \/ DownloadRespond

WebSpec == WebInit /\ [][WebNext]_vars

---------------------------------------------------------------------------
(* Claims about the classifier, checked under ClassifySpec.                *)

Called == pc = "classified"

Configured(p) ==
    /\ p[1] \in DOMAIN LayerConfigInit
    /\ p[2] \in DOMAIN LayerConfigInit[p[1]]

KnownKey(k) == k \in DOMAIN LayerConfigInit

HasDefault(k) == KnownKey(k) /\ "default" \in DOMAIN LayerConfigInit[k]

Decides(t, i) == Configured(t[i]) \/ HasDefault(t[i][1])

NoEarlierDecides(t, i) == \A j \in 1..(i - 1) : ~Decides(t, j)

(* A configured style as a caller sees it: white in monochrome mode.       *)
Shown(style, uc) == IF uc THEN style ELSE [style EXCEPT !.color = WHITE]

OsmOther == Style("OSM_OTHER", WHITE, 10)

(* C1 as stated: whenever the tag mapping holds a configured key/value     *)
(* pair, at any position and beside any other tags, get_layer_info returns *)
(* the style configured for that pair.                                     *)
C1_AnyOrderReturnsConfigured ==
    Called =>
      \A i \in 1..Len(tags) :
        Configured(tags[i]) =>
          layer_info = Shown(LayerConfigInit[tags[i][1]][tags[i][2]], use_colors)

(* C1 amended: a configured key/value pair that no earlier tag in stored   *)
(* order pre-empts (no earlier tag has a configured value or a default)    *)
(* decides the result: layer name, colour and line weight are the pair's,  *)
(* the colour being white in monochrome mode.                              *)
C1_FirstDecidingConfigured ==
    Called =>
      \A i \in 1..Len(tags) :
        (Configured(tags[i]) /\ NoEarlierDecides(tags, i)) =>
          layer_info = Shown(LayerConfigInit[tags[i][1]][tags[i][2]], use_colors)

C1_Witness ==
    /\ Called
    /\ use_colors
    /\ Len(tags) >= 2
    /\ tags[2] = <<"highway", "primary">>
    /\ NoEarlierDecides(tags, 2)
    /\ layer_info = Style("HIGHWAY_PRIMARY", YELLOW, 60)

(* C2 as stated: every tag with a known key and a value not configured     *)
(* under it makes get_layer_info return that key's default entry.          *)
C2_UnmatchedReturnsDefault ==
    Called =>
      \A i \in 1..Len(tags) :
        (KnownKey(tags[i][1]) /\ ~Configured(tags[i])) =>
          /\ HasDefault(tags[i][1])
          /\ layer_info = Shown(LayerConfigInit[tags[i][1]]["default"], use_colors)

(* C2 amended: a tag with a known key and an unconfigured value, not       *)
(* pre-empted by an earlier deciding tag, yields the key's default entry   *)
(* when the key has one (building, amenity, landuse); when it has none     *)
(* (highway, waterway, natural) the tag is passed over, so that with no    *)
(* later deciding tag the result is OSM_OTHER.                             *)
C2_UnmatchedDefaultOrPassedOver ==
    Called =>
      \A i \in 1..Len(tags) :
        (KnownKey(tags[i][1]) /\ ~Configured(tags[i]) /\ NoEarlierDecides(tags, i)) =>
          IF HasDefault(tags[i][1])
          THEN layer_info = Shown(LayerConfigInit[tags[i][1]]["default"], use_colors)
          ELSE (\A j \in (i + 1)..Len(tags) : ~Decides(tags, j)) =>
                 layer_info = OsmOther

C2_Witness ==
    /\ Called
    /\ use_colors
    /\ Len(tags) >= 2
    /\ tags[1][1] = "name"
    /\ tags[2] = <<"landuse", "residential">>
    /\ layer_info = Style("LANDUSE", YELLOW, 15)

(* The reference of C3: the first deciding tag in stored order.            *)
RefDeciders(t) == {i \in 1..Len(t) : Decides(t, i)}

RefStyle(t) ==
    IF RefDeciders(t) = {}
    THEN OsmOther
    ELSE LET i == CHOOSE d \in RefDeciders(t) : \A e \in RefDeciders(t) : d <= e
         IN  IF Configured(t[i])
             THEN LayerConfigInit[t[i][1]][t[i][2]]
             ELSE LayerConfigInit[t[i][1]]["default"]

(* C3: get_layer_info equals the reference: the first tag in stored order  *)
(* whose key is in the table and whose value is configured or whose key    *)
(* has a default decides (configured value first, else default); a table   *)
(* key with neither is passed over; with no deciding tag the result is     *)
(* OSM_OTHER, white, line weight 10.                                       *)
C3_EqualsReference ==
    Called => layer_info = Shown(RefStyle(tags), use_colors)

C3_Witness ==
    /\ Called
    /\ use_colors
    /\ Len(tags) >= 3
    /\ tags[1] = <<"highway", "bus_stop">>
    /\ tags[2][1] = "shop"
    /\ tags[3] = <<"building", "yes">>
    /\ layer_info = Style("BUILDING", GRAY, 25)

(* C4: monochrome and coloured calls agree on layer name and line weight,  *)
(* the monochrome colour is always white (OSM_OTHER included), and the     *)
(* call leaves the shared layer table as it was.                           *)
C4_MonochromeSameLayerWeight ==
    Called =>
      LET other == GetLayerInfo(LayerConfigInit, tags, ~use_colors).info
      IN  /\ layer_info.layer = other.layer
          /\ layer_info.lineweight = other.lineweight
          /\ ~use_colors => layer_info.color = WHITE
          /\ use_colors => other.color = WHITE
          /\ layer_config = LayerConfigInit

C4_Witness ==
    /\ Called
    /\ ~use_colors
    /\ Len(tags) >= 1
    /\ tags[1] = <<"highway", "primary">>
    /\ layer_info = Style("HIGHWAY_PRIMARY", WHITE, 60)
    /\ layer_config["highway"]["primary"].color = YELLOW

---------------------------------------------------------------------------
(* Claims about the generator, checked under Spec.                         *)

UsedNames(m) == {m[i].layer : i \in 1..Len(m)}

NoDuplicateLayers(ls) ==
    \A i, j \in 1..Len(ls) : i # j => ls[i].layer # ls[j].layer

StoreIds == {nodes[i].id : i \in 1..Len(nodes)}

InStore(id) == id \in StoreIds

AllProjected == \A i \in 1..Len(nodes) : nodes[i].x # None /\ nodes[i].y # None

Pt(x, y) == <<Num(x), Num(y)>>

(* The projected coordinate of the stored node with this id.               *)
ProjectedOf(id) ==
    LET n == CHOOSE m \in {nodes[i] : i \in 1..Len(nodes)} : m.id = id
    IN  Pt(Transform(n.lon, n.lat)[1], Transform(n.lon, n.lat)[2])

(* The coordinate the store holds for this id, projected or not.           *)
StoredOf(id) ==
    LET n == CHOOSE m \in {nodes[i] : i \in 1..Len(nodes)} : m.id = id
    IN  <<n.x, n.y>>

LayerFor(t) == GetLayerInfo(layer_config, t, use_colors).info.layer

(* A way that process_ways draws: tagged, with at least 2 of its node ids  *)
(* (counted as often as the way lists them) in the store.                  *)
Emits(w) ==
    /\ w.tags # <<>>
    /\ Cardinality({i \in 1..Len(w.nodes) : InStore(w.nodes[i])}) >= 2

AreaTags(t) ==
    \/ \E i \in 1..Len(t) : t[i] = <<"area", "yes">>
    \/ \E i \in 1..Len(t) : t[i][1] = "building"
    \/ \E i \in 1..Len(t) : t[i][1] = "landuse"

NewEntities == SubSeq(msp', Len(msp) + 1, Len(msp'))

(* C5 as stated: after any sequence of create_layer, process_nodes and     *)
(* process_ways calls every layer name is in the document at most once, a  *)
(* create_layer call for a registered name changes nothing, and the number *)
(* of created layers equals the number of distinct layer names the emitted *)
(* circles and polylines carry.                                            *)
C5_CreatedCountEqualsUsed ==
    [][/\ NoDuplicateLayers(doc_layers')
       /\ \A a \in DirectLayers :
            (CreateLayerWith(a) /\ a[1] \in created_layers) =>
              (doc_layers' = doc_layers /\ created_layers' = created_layers)
       /\ Cardinality(created_layers') = Cardinality(UsedNames(msp'))]_vars

(* C5 amended: every layer name is in the document at most once and the    *)
(* created set is the set of the document's layer names; a create_layer    *)
(* call for a registered name changes neither, and no call ever changes a  *)
(* layer already registered (first registration wins); every layer name an *)
(* emitted circle or polyline carries is a created layer, and process_nodes*)
(* and process_ways keep the created layers equal to the names carried:    *)
(* only a direct create_layer call for a name no primitive carries makes   *)
(* the created layers outnumber them.                                      *)
C5_LayersOnceFirstWins ==
    [][/\ NoDuplicateLayers(doc_layers')
       /\ created_layers' = {doc_layers'[i].layer : i \in 1..Len(doc_layers')}
       /\ \A a \in DirectLayers :
            (CreateLayerWith(a) /\ a[1] \in created_layers) =>
              (doc_layers' = doc_layers /\ created_layers' = created_layers)
       /\ Len(doc_layers') >= Len(doc_layers)
       /\ SubSeq(doc_layers', 1, Len(doc_layers)) = doc_layers
       /\ UsedNames(msp') \subseteq created_layers'
       /\ (created_layers = UsedNames(msp) /\ (ProcessNodesCall \/ ProcessWaysCall)) =>
            created_layers' = UsedNames(msp')]_vars

C5_Witness ==
    /\ pc = "process_nodes"
    /\ \E i \in 1..Len(doc_layers) : doc_layers[i] = Style("AMENITY", RED, 35)
    /\ \E i \in 1..Len(msp) : msp[i].kind = "CIRCLE" /\ msp[i].layer = "AMENITY"
    /\ Cardinality(created_layers) = Cardinality(UsedNames(msp))

(* C6: process_ways emits nothing and registers no layer for an untagged   *)
(* way or a way with fewer than 2 node ids in the store; every other way   *)
(* yields exactly one polyline.                                            *)
C6_SkippedWaysLeaveNothing ==
    [][ProcessWaysCall =>
         LET e == SelectSeq(ways, Emits)
         IN  /\ Len(msp') = Len(msp) + Len(e)
             /\ SubSeq(msp', 1, Len(msp)) = msp
             /\ \A k \in 1..Len(e) :
                  /\ msp'[Len(msp) + k].kind = "LWPOLYLINE"
                  /\ msp'[Len(msp) + k].layer = LayerFor(e[k].tags)
             /\ created_layers' =
                  created_layers \cup {LayerFor(e[k].tags) : k \in 1..Len(e)}
             /\ Len(e) = 0 => doc_layers' = doc_layers]_vars

C6_Witness ==
    /\ pc = "process_ways"
    /\ calls = 2
    /\ AllProjected
    /\ Len(nodes) = 3
    /\ Len(ways) = 1
    /\ ways[1].nodes = <<4, 1, 4>>
    /\ ways[1].tags # <<>>
    /\ \A i \in 1..Len(msp) : msp[i].kind = "CIRCLE"
    /\ "HIGHWAY_RESIDENTIAL" \notin created_layers

(* The way's node ids that are in the store, in the way's order.           *)
PresentIds(w) == SelectSeq(w.nodes, InStore)

ExpectedPoints(w) == [i \in 1..Len(PresentIds(w)) |-> ProjectedOf(PresentIds(w)[i])]

StoredPoints(w) == [i \in 1..Len(PresentIds(w)) |-> StoredOf(PresentIds(w)[i])]

(* C7: once the nodes are projected, a tagged way that is no area and has  *)
(* at least 2 node ids in the store yields exactly one open polyline on    *)
(* the layer get_layer_info returns, whose points are the projected        *)
(* coordinates of the way's stored node ids in the way's order, absent ids *)
(* left out and nothing appended.                                          *)
C7_OpenPolylinePoints ==
    [][(ProcessWaysCall /\ AllProjected) =>
         LET e == SelectSeq(ways, Emits)
         IN  /\ Len(msp') = Len(msp) + Len(e)
             /\ \A k \in 1..Len(e) :
                  ~AreaTags(e[k].tags) =>
                    msp'[Len(msp) + k] =
                      [kind |-> "LWPOLYLINE", points |-> ExpectedPoints(e[k]),
                       radius |-> 0, closed |-> FALSE,
                       layer |-> LayerFor(e[k].tags)]]_vars

C7_Witness ==
    /\ pc = "process_ways"
    /\ Len(ways) = 1
    /\ ways[1].tags = <<<<"highway", "residential">>>>
    /\ Len(msp) >= 1
    /\ msp[Len(msp)] =
         Polyline(<<Pt(0, 0), Pt(10, 0), Pt(10, 10)>>, FALSE, "HIGHWAY_RESIDENTIAL")

(* C8: a way is emitted closed exactly when its tags have area=yes, a      *)
(* building key or a landuse key; its points are then the resolved         *)
(* coordinates with the first one appended once iff first and last differ, *)
(* so the last point equals the first.                                     *)
C8_ClosedPolylineRing ==
    [][ProcessWaysCall =>
         LET e == SelectSeq(ways, Emits)
         IN  /\ Len(msp') = Len(msp) + Len(e)
             /\ \A k \in 1..Len(e) :
                  LET p == msp'[Len(msp) + k]
                      c == StoredPoints(e[k])
                  IN  /\ p.closed = AreaTags(e[k].tags)
                      /\ AreaTags(e[k].tags) =>
                           /\ p.points = IF c[1] # c[Len(c)] THEN c \o <<c[1]>> ELSE c
                           /\ p.points[Len(p.points)] = p.points[1]
                           /\ p.layer = LayerFor(e[k].tags)]_vars

C8_Witness ==
    /\ pc = "process_ways"
    /\ Len(ways) = 1
    /\ ways[1].tags = <<<<"building", "yes">>>>
    /\ ways[1].nodes = <<1, 2, 3>>
    /\ Len(msp) >= 1
    /\ msp[Len(msp)] =
         Polyline(<<Pt(0, 0), Pt(10, 0), Pt(10, 10), Pt(0, 0)>>, TRUE, "BUILDING")

HasPointKey(n) ==
    KeysOf(n.tags) \cap {"amenity", "shop", "tourism", "highway"} # {}

(* C9: process_nodes emits, for every node with one of the keys amenity,   *)
(* shop, tourism, highway, exactly one circle of radius 5 centred on the   *)
(* node's projected coordinate on the layer get_layer_info returns for its *)
(* tags, and for every other node nothing and no layer.                    *)
C9_CirclesForPointNodes ==
    [][ProcessNodesCall =>
         LET pw == SelectSeq(nodes, HasPointKey)
         IN  /\ msp' = msp \o
                  [k \in 1..Len(pw) |->
                     [kind |-> "CIRCLE", points |-> <<ProjectedOf(pw[k].id)>>,
                      radius |-> 5, closed |-> FALSE,
                      layer |-> LayerFor(pw[k].tags)]]
             /\ created_layers' =
                  created_layers \cup {LayerFor(pw[k].tags) : k \in 1..Len(pw)}]_vars

C9_Witness ==
    /\ pc = "process_nodes"
    /\ calls = 1
    /\ Len(nodes) = 3
    /\ \E i \in 1..Len(nodes) : nodes[i].tags = <<<<"name", "Main St">>>>
    /\ \E i \in 1..Len(nodes) : nodes[i].tags = <<>>
    /\ msp = <<Circle(Pt(0, 0), "AMENITY")>>
    /\ created_layers = {"AMENITY"}

---------------------------------------------------------------------------
(* Claims about the conversion run, checked under RunSpec.                 *)

ProjectedPoints ==
    {ProjectedOf(nodes[i].id) : i \in {j \in 1..Len(nodes) : nodes[j].x # None}}

(* C10 as stated: nothing, circle or polyline, is in the document while    *)
(* some node of the store has no projected coordinate.                     *)
C10_NothingEmittedBeforeAllProjected ==
    msp # <<>> => AllProjected

(* C10 amended: no polyline is in the document while some node of the      *)
(* store has no projected coordinate; a circle is added only once its own  *)
(* node is projected, possibly while later nodes of the store are not;     *)
(* every point of every emitted circle and polyline is a projected         *)
(* coordinate of a stored node.                                            *)
C10_PolylinesAfterProjection ==
    /\ (\E i \in 1..Len(msp) : msp[i].kind = "LWPOLYLINE") => AllProjected
    /\ \A i \in 1..Len(msp) :
         \A k \in 1..Len(msp[i].points) : msp[i].points[k] \in ProjectedPoints

C10_Witness ==
    /\ pc = "done"
    /\ \E i \in 1..Len(msp) : msp[i].kind = "CIRCLE"
    /\ \E i \in 1..Len(msp) : msp[i].kind = "LWPOLYLINE" /\ Len(msp[i].points) = 4

(* How often the projection function was invoked for the node with this id. *)
ProjectionCalls(log, id) == Cardinality({i \in 1..Len(log) : log[i] = id})

(* process_nodes has returned: the run is in a later step, or failed in one. *)
NodesThrough ==
    \/ pc \in {"ways", "save", "saved", "completed_status",
               "completed_progress", "completed_output", "done"}
    \/ exc \in {<<WriteError>>, <<StatError>>}

Downloadable == job.status = "completed" /\ job.output_file # None /\ saved

(* The failures C12 is about: parsing, a node projection, saving.          *)
RunFailures == {<<ParseError>>, <<ProjectionError>>, <<WriteError>>}

HasPolyline == \E i \in 1..Len(msp) : msp[i].kind = "LWPOLYLINE"

(* C12: once parsing, a node projection or saving has raised, the run is   *)
(* in its except clause and nowhere else: the exception stays the one that *)
(* was raised, and no step changes the handler, the document, the          *)
(* projection log or the output file again; a projection failure leaves    *)
(* the failing node unprojected, no polyline in the document and nothing   *)
(* saved, a parse failure leaves the handler and the document empty.  The  *)
(* web job has no output_file and is never downloadable, and when the      *)
(* except clause is through its status is 'error', its error_message the   *)
(* exception text and its progress 0.  The CLI logs the error and exits    *)
(* with code 1.                                                            *)
C12_FailureIsTerminal ==
    [][ exc' \in RunFailures =>
          /\ exc # None =>
               UNCHANGED <<exc, layer_config, nodes, ways, created_layers,
                           doc_layers, msp, transform_log, saved, idx>>
          /\ ~saved'
          /\ exc' = <<ProjectionError>> =>
               /\ ~HasPolyline'
               /\ nodes'[idx'].x = None /\ nodes'[idx'].y = None
          /\ exc' = <<ParseError>> => nodes' = <<>> /\ ways' = <<>> /\ msp' = <<>>
          /\ job'.output_file = None
          /\ ~Downloadable'
          /\ caller' = "web" =>
               /\ pc' \in {"except", "except_status", "except_message", "failed"}
               /\ pc' = "failed" =>
                    /\ job'.status = "error"
                    /\ job'.error_message = exc'
                    /\ job'.progress = 0
          /\ caller' = "cli" =>
               /\ pc' \in {"except", "exited"}
               /\ pc' = "exited" =>
                    cli'.exit_code = <<1>> /\ cli'.error_logged ]_vars

C12_Witness ==
    /\ caller = "web"
    /\ pc = "failed"
    /\ exc = <<ProjectionError>>
    /\ Len(nodes) = MaxNodes
    /\ idx = 2
    /\ \E i \in 1..Len(msp) : msp[i].kind = "CIRCLE"
    /\ \E w \in 1..Len(ways) : ways[w].tags # <<>> /\ Len(ways[w].nodes) >= 2
    /\ job.status = "error" /\ job.error_message = <<ProjectionError>>

---------------------------------------------------------------------------
(* Claims about requests racing the conversion, checked under WebSpec.     *)

(* A request reads job.status in this step.                                *)
ReadsStatus == req'.n = req.n + 1

(* A request is answered in this step.                                     *)
Responds == req.at # "responded" /\ req'.at = "responded"

(* C13: whenever a request reads job.status as 'completed', the job's      *)
(* progress is 100 and its output_file is set at that moment; a status     *)
(* response that says 'completed' carries progress 100 and a download_url, *)
(* a download request that saw 'completed' is served the file; and once a  *)
(* request has seen 'completed', no later request reads 'error'.           *)
C13_CompletedIsReady ==
    [][ /\ (ReadsStatus /\ req'.status = <<"completed">>) =>
              job.progress = 100 /\ job.output_file # None
        /\ (Responds /\ req'.status = <<"completed">>) =>
              IF req'.route = "status"
              THEN req'.progress = <<100>> /\ req'.download_url # None
              ELSE req'.code = <<200>>
        /\ (ReadsStatus /\ req.seen_completed) =>
              req'.status # <<"error">> ]_vars

=============================================================================
